---- MODULE Spec2Model ----
(***************************************************************************)
(* Model of the experiment worker of spiro (src/spiro/experimenter.py):    *)
(* the Experimenter thread (run / runExperiment / takePicture and its      *)
(* helpers / _end_experiment), the two signals of the control surface      *)
(* (go, stop), a preview reader that takes preview_lock, and the camera    *)
(* attributes the worker reads back (src/spiro/camera.py).                 *)
(*                                                                         *)
(* The worker is one thread: wpc is its position, i the plate index of the *)
(* for loop, exc the exception in flight ("none" when there is none).  The *)
(* control surface is a second thread: cpc is its position inside go(),    *)
(* stop() or a preview read.  Every statement that reads or writes state   *)
(* shared by the two threads is a step of its own.                         *)
(*                                                                         *)
(* Every call into the camera, the turntable or the filesystem may raise.  *)
(* isDaytime is one of them: its with statement (line 70) is applied to    *)
(* the plain generator temporary_resolution returns (lines 61-66 carry no  *)
(* context-manager decorator), which CPython rejects with a TypeError, and *)
(* the sampling capture (line 73) can fail; both end the call with an      *)
(* exception before self.daytime is assigned.  The model gives isDaytime   *)
(* three outcomes, raise, day and night: the raising one is what lines     *)
(* 61-70 do as written, the returning ones are what lines 71-79 compute    *)
(* once the scoped resolution change is entered, and they keep the code    *)
(* after the classification (exposure, white balance, capture, save,       *)
(* preview, rounds) inside the model.  A failure inside the body of the    *)
(* with statement (line 73) is the third outcome: lines 63-64 have run and *)
(* line 66 has not.                                                        *)
(*                                                                         *)
(* Spec is the worker with go, stop and the preview reader.  SpecRounds    *)
(* and SpecConfig are the worker with a control surface that only starts   *)
(* runs: SpecRounds from delays that give four rounds a run or do not      *)
(* divide the duration, SpecConfig with a control surface that also stores *)
(* a new delay at any moment.                                              *)
(***************************************************************************)
EXTENDS Integers, FiniteSets, Sequences, TLC

(* ---- bounds of the model ---- *)
\* the clock stops after this many ticks
MaxTicks == 8
\* the worker starts at most this many experiments
MaxRuns == 2

\* time.time() is observed at a granularity of six hours (in seconds)
TickSeconds == 6 * 60 * 60
\* values of self.delay (minutes) and self.duration (days) the control
\* surface has stored before the first go()
DelaySet == {720}
DurationSet == {1}
\* delays that divide the duration into four rounds and that do not divide it
RoundDelays == {360, 1080}

Plates == 0 .. 3

VARIABLES
    wpc, i, exc,                       \* worker: position, plate index, exception in flight
    cpc,                               \* control surface: position
    next_status, status_change,        \* the start command and its Event
    running, status, stop_experiment,
    starttime, endtime, nextloop, nshots,
    delay, duration, idlepos,
    daytime, prev_daytime,
    last_captured, preview, preview_lock,
    cam_type, awb_mode, exposure_mode, color_effects,
    resolution,                        \* what the camera backend stores for cam.resolution
    led, motor,
    now,                               \* time.time()
    \* history variables (observers, never read by the program)
    runs, rounds, finalized, staleGo, stopRound, polls,
    wbCount, transCount, wbThis, awb_read,
    saved, shown,                      \* plates of the round with a saved file, an encoded preview
    delay0                             \* the delay line 189 of the run has read

vars == <<wpc, i, exc, cpc, next_status, status_change, running, status,
          stop_experiment, starttime, endtime, nextloop, nshots, delay,
          duration, idlepos, daytime, prev_daytime, last_captured, preview,
          preview_lock, cam_type, awb_mode, exposure_mode, color_effects,
          led, motor, now, runs, rounds, finalized, staleGo, stopRound,
          polls, wbCount, transCount, wbThis, awb_read, resolution, saved,
          shown, delay0>>

\* groups used in UNCHANGED
sigv   == <<next_status, status_change>>
schedv == <<starttime, endtime, nextloop, nshots>>
cfgv   == <<delay, duration>>
dayv   == <<daytime, prev_daytime>>
prevv  == <<last_captured, preview, preview_lock>>
camv   == <<cam_type, awb_mode, exposure_mode, color_effects>>
hwv    == <<led, motor>>
wbv    == <<wbCount, transCount, wbThis, awb_read>>
histv  == <<runs, rounds, finalized, staleGo, stopRound, polls>>
workerv == <<wpc, i, exc>>
obsv   == <<saved, shown, delay0>>

(* ---- positions of the worker ---- *)
\* inside the for loop of one round, up to the end of plate 3's takePicture
RoundLabels == {"motor_on", "find_start", "img_chk", "img_set", "half_step",
                "classify", "expose", "wb", "capture", "led_off", "save",
                "thumb_acq", "thumb_new", "thumb_save", "thumb_rel"}
\* inside the while loop of runExperiment (lines 201-239)
LoopLabels == RoundLabels \cup {"loop", "round", "round_end", "wait_chk",
                "wait_set", "idle_rot", "idle_step", "idle_off",
                "idle_inc", "idle_wrap", "sleep_chk", "sleep"}
\* inside _end_experiment
FinLabels == {"fin_status", "fin_stop", "fin_run"}
\* outside runExperiment: in run()'s loop, or the thread has ended
IdleLabels == {"wait", "chk", "clr_next", "clr_event"}
(* ---- construction: Experimenter.__init__ / _initialize_defaults ---- *)
\* the state after construction, once the control surface has stored one of
\* the given delays
Constructed(delays) ==
    /\ wpc = "wait" /\ i = 0 /\ exc = "none"
    /\ cpc = "idle"
    /\ next_status = "" /\ status_change = FALSE
    /\ running = FALSE /\ status = "Stopped" /\ stop_experiment = FALSE
    /\ starttime = 0 /\ endtime = 0 /\ nextloop = 0 /\ nshots = 0
    /\ delay \in delays /\ duration \in DurationSet
    /\ idlepos = 0
    /\ daytime = "TBD" /\ prev_daytime = "TBD"
    /\ last_captured = [p \in Plates |-> ""]
    /\ preview = [p \in Plates |-> "initial"]
    /\ preview_lock = "free"
    /\ cam_type \in {"legacy", "libcamera"}
    /\ awb_mode = "auto" /\ exposure_mode = "auto"
    /\ color_effects \in {"None", "override"}
    /\ led = FALSE /\ motor = FALSE
    /\ now = TickSeconds
    /\ runs = 0 /\ rounds = 0 /\ finalized = 0 /\ staleGo = FALSE
    /\ stopRound = -1 /\ polls = 0
    /\ wbCount = 0 /\ transCount = 0 /\ wbThis = 0 /\ awb_read = "unread"
    /\ resolution = "full"
    /\ saved = 0 /\ shown = 0 /\ delay0 = 0

Init == Constructed(DelaySet)

(* ---- the control surface ---- *)
\* go() as a restart: the store of the start command also restarts the
\* schedule of the experiment
GoStore_restart ==
    /\ cpc = "idle"
    /\ next_status' = "run"
    /\ cpc' = "go_set"
    /\ staleGo' = running
    /\ starttime' = now
    /\ UNCHANGED <<workerv, status_change, running, status, stop_experiment,
                   endtime, nextloop, nshots, cfgv, resolution, obsv, idlepos, dayv, prevv,
                   camv, hwv, now, wbv, runs, rounds, finalized, stopRound,
                   polls>>

\* go(), line 172: self.next_status = 'run'.  staleGo records whether this
\* start command was written while an experiment was running.
GoStore ==
    /\ cpc = "idle"
    /\ next_status' = "run"
    /\ cpc' = "go_set"
    /\ staleGo' = running
    /\ UNCHANGED <<workerv, status_change, running, status, stop_experiment,
                   schedv, cfgv, resolution, obsv, idlepos, dayv, prevv, camv, hwv, now, wbv,
                   runs, rounds, finalized, stopRound, polls>>

\* go(), line 173: self.status_change.set()
GoSet ==
    /\ cpc = "go_set"
    /\ status_change' = TRUE
    /\ cpc' = "idle"
    /\ UNCHANGED <<workerv, next_status, running, status, stop_experiment,
                   schedv, cfgv, resolution, obsv, idlepos, dayv, prevv, camv, hwv, now, wbv,
                   histv>>

\* stop(), line 51: self.status = "Stopping"
StopStatus ==
    /\ cpc = "idle"
    /\ status' = "Stopping"
    /\ cpc' = "stop_next"
    /\ UNCHANGED <<workerv, sigv, running, stop_experiment, schedv, cfgv, resolution, obsv,
                   idlepos, dayv, prevv, camv, hwv, now, wbv, histv>>

\* stop(), line 52: self.next_status = ''
StopNext ==
    /\ cpc = "stop_next"
    /\ next_status' = ""
    /\ cpc' = "stop_flag"
    /\ UNCHANGED <<workerv, status_change, running, status, stop_experiment,
                   schedv, cfgv, resolution, obsv, idlepos, dayv, prevv, camv, hwv, now, wbv,
                   histv>>

\* the worker is inside a round whose fourth takePicture has not returned
MidRound == wpc \in RoundLabels \cup {"round"}

\* stop(), line 53: self.stop_experiment = True.  stopRound records the
\* number of completed rounds when the request lands inside a round.
StopFlag ==
    /\ cpc = "stop_flag"
    /\ stop_experiment' = TRUE
    /\ cpc' = "idle"
    /\ stopRound' = IF MidRound /\ stopRound = -1 THEN rounds ELSE stopRound
    /\ UNCHANGED <<workerv, sigv, running, status, schedv, cfgv, resolution, obsv, idlepos,
                   dayv, prevv, camv, hwv, now, wbv, runs, rounds, finalized,
                   staleGo, polls>>

\* a preview request of the control surface: it takes preview_lock, reads
\* the slots and releases the lock
ReadAcquire ==
    /\ cpc = "idle"
    /\ preview_lock = "free"
    /\ preview_lock' = "reader"
    /\ cpc' = "reading"
    /\ UNCHANGED <<workerv, sigv, running, status, stop_experiment, schedv,
                   cfgv, resolution, obsv, idlepos, dayv, last_captured, preview, camv, hwv,
                   now, wbv, histv>>

ReadRelease ==
    /\ cpc = "reading"
    /\ preview_lock' = "free"
    /\ cpc' = "idle"
    /\ UNCHANGED <<workerv, sigv, running, status, stop_experiment, schedv,
                   cfgv, resolution, obsv, idlepos, dayv, last_captured, preview, camv, hwv,
                   now, wbv, histv>>

\* the delays (minutes) the control surface stores in self.delay
ConfigDelays == {720, 1080}

\* the control surface stores a new delay in the experimenter (the attribute
\* is public and the worker reads it at lines 189 and 203)
SetDelay ==
    /\ cpc = "idle"
    /\ \E d \in ConfigDelays : d # delay /\ delay' = d
    /\ UNCHANGED <<workerv, sigv, running, status, stop_experiment, schedv,
                   duration, resolution, saved, shown, delay0, idlepos, dayv,
                   prevv, camv, hwv, now, wbv, histv, cpc>>

(* ---- the worker: run() ---- *)
Goto(l) == wpc' = l /\ UNCHANGED <<i, exc>>

\* an exception that would leave runExperiment without its finally clause
FinallyTarget_skipped == "dead"

\* where control goes when the try block of runExperiment is left, by the end
\* of the loop or by an exception: the finally clause (lines 241-242)
FinallyTarget == "fin_status"

\* an exception raised inside the try block of runExperiment
Raise(kind) == wpc' = FinallyTarget /\ exc' = kind /\ i' = i

\* line 164: self.status_change.wait()
WaitEvent ==
    /\ wpc = "wait"
    /\ status_change
    /\ Goto("chk")
    /\ UNCHANGED <<cpc, sigv, running, status, stop_experiment, schedv, cfgv, resolution, obsv,
                   idlepos, dayv, prevv, camv, hwv, now, wbv, histv>>

\* line 165: if self.next_status == 'run'; otherwise back to the wait
CheckNext ==
    /\ wpc = "chk"
    /\ IF next_status = "run"
       THEN runs < MaxRuns /\ Goto("clr_next")
       ELSE Goto("wait")
    /\ UNCHANGED <<cpc, sigv, running, status, stop_experiment, schedv, cfgv, resolution, obsv,
                   idlepos, dayv, prevv, camv, hwv, now, wbv, histv>>

\* line 166: self.next_status = ''
ClearNext ==
    /\ wpc = "clr_next"
    /\ next_status' = ""
    /\ Goto("clr_event")
    /\ UNCHANGED <<cpc, status_change, running, status, stop_experiment,
                   schedv, cfgv, resolution, obsv, idlepos, dayv, prevv, camv, hwv, now, wbv,
                   histv>>

\* line 167: self.status_change.clear(); line 168 calls runExperiment
ClearEvent ==
    /\ wpc = "clr_event"
    /\ status_change' = FALSE
    /\ Goto("guard")
    /\ UNCHANGED <<cpc, next_status, running, status, stop_experiment, schedv,
                   cfgv, resolution, obsv, idlepos, dayv, prevv, camv, hwv, now, wbv, histv>>

(* ---- the worker: runExperiment() ---- *)
\* lines 177-183: the guard (its RuntimeError is raised outside the try and
\* ends the thread), cam.still_mode(), self.running = True
StartRun ==
    /\ wpc = "guard"
    /\ IF running
       THEN /\ wpc' = "dead" /\ exc' = "already_running" /\ i' = i
            /\ UNCHANGED <<running, runs, finalized>>
       ELSE /\ Goto("init_status")
            /\ running' = TRUE
            /\ runs' = runs + 1
            /\ finalized' = 0
    /\ UNCHANGED <<cpc, sigv, status, stop_experiment, schedv, cfgv,
                   resolution, saved, shown, delay0, idlepos,
                   dayv, prevv, camv, hwv, now, wbv, rounds, staleGo,
                   stopRound, polls>>

\* line 184: self.status = "Initiating"
InitStatus ==
    /\ wpc = "init_status"
    /\ status' = "Initiating"
    /\ Goto("init_times")
    /\ UNCHANGED <<cpc, sigv, running, stop_experiment, schedv, cfgv, resolution, obsv, idlepos,
                   dayv, prevv, camv, hwv, now, wbv, histv>>

\* line 189: self.nshots = self.duration * 24 * 60 // self.delay
ShotCount(days, minutes) == (days * 24 * 60) \div minutes

\* line 186: time.time() + 60 * 60 * 24 * self.duration
EndTime(t, days) == t + 60 * 60 * 24 * days

\* lines 185-199: start and end time, shot count, reset of last_captured,
\* automatic exposure, LED off, creation of the plate directories (which
\* may fail).  self.delay is positive here, so line 188 keeps it.
InitTimes ==
    /\ wpc = "init_times"
    /\ starttime' = now
    /\ endtime' = EndTime(now, duration)
    /\ last_captured' = [p \in Plates |-> ""]
    /\ nshots' = ShotCount(duration, delay)
    /\ delay0' = delay
    /\ exposure_mode' = "auto"
    /\ led' = FALSE
    /\ \/ Goto("loop")
       \/ Raise("makedirs")
    /\ UNCHANGED <<cpc, sigv, running, status, stop_experiment, nextloop,
                   cfgv, resolution, saved, shown, idlepos, dayv, preview, preview_lock, cam_type,
                   awb_mode, color_effects, motor, now, wbv, histv>>

\* line 201: while time.time() < self.endtime and not self.stop_experiment
LoopCheck ==
    /\ wpc = "loop"
    /\ IF now < endtime /\ ~stop_experiment
       THEN Goto("round")
       ELSE Goto(FinallyTarget)
    /\ UNCHANGED <<cpc, sigv, running, status, stop_experiment, schedv, cfgv, resolution, obsv,
                   idlepos, dayv, prevv, camv, hwv, now, wbv, histv>>

\* lines 203-205: the next round's time, clamped to the end time
NextLoop(t, minutes, tend) ==
    IF t + 60 * minutes > tend THEN tend ELSE t + 60 * minutes

\* lines 202-207: a round begins; no plate of it has a file or a preview yet
RoundStart ==
    /\ wpc = "round"
    /\ nextloop' = NextLoop(now, delay, endtime)
    /\ wpc' = "motor_on" /\ i' = 0 /\ exc' = exc
    /\ saved' = 0 /\ shown' = 0
    /\ UNCHANGED <<cpc, sigv, running, status, stop_experiment, starttime,
                   endtime, nshots, cfgv, resolution, delay0, idlepos, dayv, prevv, camv, hwv,
                   now, wbv, histv>>

\* lines 209-210 (plate 0): motorOn(True); self.status = "Finding start position"
MotorOn ==
    /\ wpc = "motor_on"
    /\ motor' = TRUE
    /\ status' = "Finding start position"
    /\ Goto("find_start")
    /\ UNCHANGED <<cpc, sigv, running, stop_experiment, schedv, cfgv, resolution, obsv, idlepos,
                   dayv, prevv, camv, led, now, wbv, histv>>

\* line 212: self.hw.findStart(...), a blocking homing routine that may fail
FindStart ==
    /\ wpc = "find_start"
    /\ \/ Goto("img_chk")
       \/ Raise("motor")
    /\ UNCHANGED <<cpc, sigv, running, status, stop_experiment, schedv, cfgv, resolution, obsv,
                   idlepos, dayv, prevv, camv, hwv, now, wbv, histv>>

\* line 214, the test: if self.status != "Stopping"
ImgCheck ==
    /\ wpc = "img_chk"
    /\ IF status # "Stopping" THEN Goto("img_set") ELSE Goto("classify")
    /\ UNCHANGED <<cpc, sigv, running, status, stop_experiment, schedv, cfgv, resolution, obsv,
                   idlepos, dayv, prevv, camv, hwv, now, wbv, histv>>

\* line 214, the store: self.status = "Imaging"
ImgSet ==
    /\ wpc = "img_set"
    /\ status' = "Imaging"
    /\ Goto("classify")
    /\ UNCHANGED <<cpc, sigv, running, stop_experiment, schedv, cfgv, resolution, obsv, idlepos,
                   dayv, prevv, camv, hwv, now, wbv, histv>>

\* line 217 (plates 1-3): self.hw.halfStep(100, 0.03), which may fail
HalfStep ==
    /\ wpc = "half_step"
    /\ \/ Goto("classify")
       \/ Raise("motor")
    /\ UNCHANGED <<cpc, sigv, running, status, stop_experiment, schedv, cfgv, resolution, obsv,
                   idlepos, dayv, prevv, camv, hwv, now, wbv, histv>>

(* ---- the camera's white-balance attribute ---- *)
\* NewCamera.awb_mode (camera.py, lines 145-153): the getter returns None and
\* the setter stores nothing
NewCameraAwbGet == "None"
NewCameraAwbSet(stored, value) == stored

\* the legacy backend (cam.type == 'legacy'): awb_mode is a stored attribute
LegacyAwbGet(stored) == stored
LegacyAwbSet(stored, value) == value

AwbGet(type, stored) ==
    IF type = "legacy" THEN LegacyAwbGet(stored) ELSE NewCameraAwbGet
AwbSet(type, stored, value) ==
    IF type = "legacy" THEN LegacyAwbSet(stored, value)
    ELSE NewCameraAwbSet(stored, value)

(* ---- the camera's resolution attribute ---- *)
\* NewCamera.resolution (camera.py, lines 135-143): the getter returns a fixed
\* size and the setter stores nothing
NewCameraResolutionGet == "full"
NewCameraResolutionSet(stored, value) == stored

\* the legacy backend (cam.type == 'legacy'): resolution is a stored attribute
LegacyResolutionGet(stored) == stored
LegacyResolutionSet(stored, value) == value

ResolutionGet(type, stored) ==
    IF type = "legacy" THEN LegacyResolutionGet(stored)
    ELSE NewCameraResolutionGet
ResolutionSet(type, stored, value) ==
    IF type = "legacy" THEN LegacyResolutionSet(stored, value)
    ELSE NewCameraResolutionSet(stored, value)

\* temporary_resolution, lines 63-64: oldres = self.cam.resolution;
\* self.cam.resolution = resolution
TemporaryResolutionEnter(type, stored) == ResolutionSet(type, stored, "low")

\* temporary_resolution, line 66, reached when the body of the with statement
\* ends without an exception: self.cam.resolution = oldres
TemporaryResolutionExit(type, stored, oldres) ==
    ResolutionSet(type, stored, oldres)

(* ---- the worker: takePicture() ---- *)
\* lines 219-222 and 97-99: the settle delay, the file name,
\* prev_daytime = self.daytime, self.daytime = self.isDaytime().
\* isDaytime (lines 68-79) returns mean > 10 after the scoped resolution
\* change was entered and left, or raises: at the with statement (line 70),
\* before any line of temporary_resolution has run, or inside its body (the
\* sampling capture, line 73), where lines 63-64 have run and line 66, which
\* no try/finally protects, is skipped.
Classify ==
    /\ wpc = "classify"
    /\ \/ \E r \in {"True", "False"} :
            /\ prev_daytime' = daytime
            /\ daytime' = r
            /\ transCount' = IF daytime # r THEN transCount + 1 ELSE transCount
            /\ wbThis' = 0
            /\ awb_read' = "unread"
            /\ resolution' = TemporaryResolutionExit(cam_type,
                                 TemporaryResolutionEnter(cam_type, resolution),
                                 ResolutionGet(cam_type, resolution))
            /\ Goto("expose")
       \/ /\ Raise("classify")
          /\ UNCHANGED <<dayv, transCount, wbThis, awb_read, resolution>>
       \/ /\ Raise("classify")
          /\ resolution' = TemporaryResolutionEnter(cam_type, resolution)
          /\ UNCHANGED <<dayv, transCount, wbThis, awb_read>>
    /\ UNCHANGED <<cpc, sigv, running, status, stop_experiment, schedv, cfgv,
                   obsv, idlepos, prevv, camv, hwv, now, wbCount, histv>>

\* lines 101 and 108-119: day clears the colour effect, night lights the LED
Expose ==
    /\ wpc = "expose"
    /\ IF daytime = "True"
       THEN color_effects' = "None" /\ led' = led
       ELSE led' = TRUE /\ color_effects' = color_effects
    /\ Goto("wb")
    /\ UNCHANGED <<cpc, sigv, running, status, stop_experiment, schedv, cfgv, resolution, obsv,
                   idlepos, dayv, prevv, cam_type, awb_mode, exposure_mode,
                   motor, now, wbv, histv>>

NeedsWB_any_day(prev, cur, awb) == cur = "True" /\ awb # "off"

NeedsWB_no_awb_guard(prev, cur, awb) == prev # cur /\ cur = "True"

\* line 103: prev_daytime != self.daytime and self.daytime
\*           and self.cam.awb_mode != "off"
NeedsWB(prev, cur, awb) == prev # cur /\ cur = "True" /\ awb # "off"

\* setWB, lines 86-93: awb_mode = "auto", wait, read the gains,
\* awb_mode = "off", pin the gains
SetWB(type, stored) == AwbSet(type, AwbSet(type, stored, "auto"), "off")

\* lines 103-104
WhiteBalance ==
    /\ wpc = "wb"
    /\ awb_read' = AwbGet(cam_type, awb_mode)
    /\ IF NeedsWB(prev_daytime, daytime, AwbGet(cam_type, awb_mode))
       THEN /\ awb_mode' = SetWB(cam_type, awb_mode)
            /\ wbCount' = wbCount + 1
            /\ wbThis' = wbThis + 1
       ELSE UNCHANGED <<awb_mode, wbCount, wbThis>>
    /\ Goto("capture")
    /\ UNCHANGED <<cpc, sigv, running, status, stop_experiment, schedv, cfgv, resolution, obsv,
                   idlepos, dayv, prevv, cam_type, exposure_mode,
                   color_effects, hwv, now, transCount, histv>>

\* lines 124-130: exposure_mode = "off", then the raw capture, which may fail.
\* takePicture's local prev_daytime is not used after line 103; it and the
\* observers of the white-balance test are put back here.
Capture ==
    /\ wpc = "capture"
    /\ exposure_mode' = "off"
    /\ prev_daytime' = "TBD" /\ wbThis' = 0 /\ awb_read' = "unread"
    /\ \/ Goto("led_off")
       \/ Raise("capture")
    /\ UNCHANGED <<cpc, sigv, running, status, stop_experiment, schedv, cfgv, resolution, obsv,
                   idlepos, daytime, prevv, cam_type, awb_mode, color_effects,
                   hwv, now, wbCount, transCount, histv>>

\* the LED is left as the capture left it
LedAfterCapture_kept(cur, lit) == lit

\* lines 133-134: if not self.daytime: LEDControl(False)
LedAfterCapture(cur, lit) == IF cur # "True" THEN FALSE ELSE lit

LedOff ==
    /\ wpc = "led_off"
    /\ led' = LedAfterCapture(daytime, led)
    /\ Goto("save")
    /\ UNCHANGED <<cpc, sigv, running, status, stop_experiment, schedv, cfgv, resolution, obsv,
                   idlepos, dayv, prevv, camv, motor, now, wbv, histv>>

\* lines 140-147: decode, crop, makedirs, im.save; any of them may fail
Save ==
    /\ wpc = "save"
    /\ \/ Goto("thumb_acq") /\ saved' = saved + 1
       \/ Raise("save") /\ saved' = saved
    /\ UNCHANGED <<cpc, sigv, running, status, stop_experiment, schedv, cfgv,
                   resolution, shown, delay0,
                   idlepos, dayv, prevv, camv, hwv, now, wbv, histv>>

\* lines 153-155: im.thumbnail, self.preview_lock.acquire()
ThumbAcquire ==
    /\ wpc = "thumb_acq"
    /\ preview_lock = "free"
    /\ preview_lock' = "worker"
    /\ Goto("thumb_new")
    /\ UNCHANGED <<cpc, sigv, running, status, stop_experiment, schedv, cfgv, resolution, obsv,
                   idlepos, dayv, last_captured, preview, camv, hwv, now, wbv,
                   histv>>

\* line 156: self.preview[plate_no] = BytesIO(), a fresh empty buffer
ThumbNew ==
    /\ wpc = "thumb_new"
    /\ preview' = [preview EXCEPT ![i] = "fresh"]
    /\ Goto("thumb_save")
    /\ UNCHANGED <<cpc, sigv, running, status, stop_experiment, schedv, cfgv, resolution, obsv,
                   idlepos, dayv, last_captured, preview_lock, camv, hwv, now,
                   wbv, histv>>

\* line 157: im.save(self.preview[plate_no], format="jpeg"); when the encoder
\* fails the buffer stays empty or partly written
ThumbSave ==
    /\ wpc = "thumb_save"
    /\ \/ /\ preview' = [preview EXCEPT ![i] = "full"]
          /\ shown' = shown + 1
          /\ Goto("thumb_rel")
       \/ /\ preview' = preview
          /\ shown' = shown
          /\ wpc' = "thumb_rel" /\ exc' = "thumb" /\ i' = i
    /\ UNCHANGED <<cpc, sigv, running, status, stop_experiment, schedv, cfgv,
                   resolution, saved, delay0,
                   idlepos, dayv, last_captured, preview_lock, camv, hwv, now,
                   wbv, histv>>

\* the for loop passes over a plate
NextPlate_skip(k) == k + 2

\* line 207: for i in range(4), the plate after plate k
NextPlate(k) == k + 1

\* lines 158-159: finally: release the lock; then the exception propagates,
\* or (line 207) the for loop goes to the next plate or ends
ThumbRelease ==
    /\ wpc = "thumb_rel"
    /\ preview_lock' = "free"
    /\ IF exc # "none"
       THEN wpc' = FinallyTarget /\ UNCHANGED <<i, exc>>
       ELSE IF i < 3
            THEN wpc' = "half_step" /\ i' = NextPlate(i) /\ exc' = exc
            ELSE Goto("round_end")
    /\ UNCHANGED <<cpc, sigv, running, status, stop_experiment, schedv, cfgv, resolution, obsv,
                   idlepos, dayv, last_captured, preview, camv, hwv, now, wbv,
                   histv>>

(* ---- the worker: the end of a round and the wait phase ---- *)
\* the motor stays as the round left it
MotorAfterRound_kept(engaged) == engaged

\* line 226: self.hw.motorOn(False)
MotorAfterRound(engaged) == FALSE

\* lines 225-226: self.nshots -= 1; motorOn(False)
RoundEnd ==
    /\ wpc = "round_end"
    /\ nshots' = nshots - 1
    /\ motor' = MotorAfterRound(motor)
    /\ rounds' = rounds + 1
    /\ Goto("wait_chk")
    /\ UNCHANGED <<cpc, sigv, running, status, stop_experiment, starttime,
                   endtime, nextloop, cfgv, resolution, obsv, idlepos, dayv, prevv, camv, led,
                   now, wbv, runs, finalized, staleGo, stopRound, polls>>

\* line 227, the test: if self.status != "Stopping"
WaitCheck ==
    /\ wpc = "wait_chk"
    /\ IF status # "Stopping" THEN Goto("wait_set") ELSE Goto("idle_rot")
    /\ UNCHANGED <<cpc, sigv, running, status, stop_experiment, schedv, cfgv, resolution, obsv,
                   idlepos, dayv, prevv, camv, hwv, now, wbv, histv>>

\* line 227, the store: self.status = "Waiting"
WaitSet ==
    /\ wpc = "wait_set"
    /\ status' = "Waiting"
    /\ Goto("idle_rot")
    /\ UNCHANGED <<cpc, sigv, running, stop_experiment, schedv, cfgv, resolution, obsv, idlepos,
                   dayv, prevv, camv, hwv, now, wbv, histv>>

\* lines 229-230: if self.idlepos > 0: motorOn(True)
IdleRotation ==
    /\ wpc = "idle_rot"
    /\ IF idlepos > 0
       THEN motor' = TRUE /\ Goto("idle_step")
       ELSE motor' = motor /\ Goto("idle_inc")
    /\ UNCHANGED <<cpc, sigv, running, status, stop_experiment, schedv, cfgv,
                   resolution, obsv, idlepos, dayv, prevv, camv, led, now,
                   wbv, histv>>

\* line 231: self.hw.halfStep(50 * self.idlepos, 0.03), which may fail; the
\* failure leaves the motor engaged
IdleStep ==
    /\ wpc = "idle_step"
    /\ \/ Goto("idle_off")
       \/ Raise("motor")
    /\ UNCHANGED <<cpc, sigv, running, status, stop_experiment, schedv, cfgv,
                   resolution, obsv, idlepos, dayv, prevv, camv, hwv, now,
                   wbv, histv>>

\* line 232: self.hw.motorOn(False)
IdleOff ==
    /\ wpc = "idle_off"
    /\ motor' = FALSE
    /\ Goto("idle_inc")
    /\ UNCHANGED <<cpc, sigv, running, status, stop_experiment, schedv, cfgv,
                   resolution, obsv, idlepos, dayv, prevv, camv, led, now,
                   wbv, histv>>

\* line 234: self.idlepos += 1
IdleInc ==
    /\ wpc = "idle_inc"
    /\ idlepos' = idlepos + 1
    /\ Goto("idle_wrap")
    /\ UNCHANGED <<cpc, sigv, running, status, stop_experiment, schedv, cfgv, resolution, obsv,
                   dayv, prevv, camv, hwv, now, wbv, histv>>

\* lines 235-236: if self.idlepos > 7: self.idlepos = 0
IdleWrap ==
    /\ wpc = "idle_wrap"
    /\ idlepos' = IF idlepos > 7 THEN 0 ELSE idlepos
    /\ Goto("sleep_chk")
    /\ UNCHANGED <<cpc, sigv, running, status, stop_experiment, schedv, cfgv, resolution, obsv,
                   dayv, prevv, camv, hwv, now, wbv, histv>>

\* line 238: while time.time() < nextloop and not self.stop_experiment
SleepCheck ==
    /\ wpc = "sleep_chk"
    /\ IF now < nextloop /\ ~stop_experiment
       THEN Goto("sleep")
       ELSE Goto("loop")
    /\ UNCHANGED <<cpc, sigv, running, status, stop_experiment, schedv, cfgv, resolution, obsv,
                   idlepos, dayv, prevv, camv, hwv, now, wbv, histv>>

\* line 239: time.sleep(1).  The clock is read at the granularity of
\* TickSeconds: while the worker sleeps towards nextloop the clock may cross
\* one tick boundary; every other step of the worker takes seconds and leaves
\* the clock where it is.  polls counts the sleeps that end with a stop
\* request pending.
Sleep ==
    /\ wpc = "sleep"
    /\ polls' = IF stop_experiment THEN polls + 1 ELSE polls
    /\ \/ now' = now
       \/ /\ now < nextloop
          /\ now < MaxTicks * TickSeconds
          /\ now' = now + TickSeconds
    /\ Goto("sleep_chk")
    /\ UNCHANGED <<cpc, sigv, running, status, stop_experiment, schedv, cfgv, resolution, obsv,
                   idlepos, dayv, prevv, camv, hwv, wbv, runs, rounds,
                   finalized, staleGo, stopRound>>

(* ---- the worker: _end_experiment(), called from the finally clause ---- *)
\* lines 256-258: cam.color_effects = None; self.status = "Stopped"
FinStatus ==
    /\ wpc = "fin_status"
    /\ finalized' = finalized + 1
    /\ color_effects' = "None"
    /\ status' = "Stopped"
    /\ Goto("fin_stop")
    /\ UNCHANGED <<cpc, sigv, running, stop_experiment, schedv, cfgv, resolution, obsv, idlepos,
                   dayv, prevv, cam_type, awb_mode, exposure_mode, hwv, now,
                   wbv, runs, rounds, staleGo, stopRound, polls>>

\* line 259: self.stop_experiment = False
FinStop ==
    /\ wpc = "fin_stop"
    /\ stop_experiment' = FALSE
    /\ Goto("fin_run")
    /\ UNCHANGED <<cpc, sigv, running, status, schedv, cfgv, resolution, obsv, idlepos, dayv,
                   prevv, camv, hwv, now, wbv, histv>>

\* lines 260-262: self.running = False; exposure_mode = "auto"; meter_mode.
\* Then runExperiment returns to run()'s loop, or the exception in flight
\* leaves run() and the thread ends.  The locals of runExperiment (i,
\* nextloop) go out of scope; the observers of the run are put back, except
\* finalized, which is read while the worker is idle.
FinRun ==
    /\ wpc = "fin_run"
    /\ running' = FALSE
    /\ exposure_mode' = "auto"
    /\ wpc' = IF exc # "none" THEN "dead" ELSE "wait"
    /\ i' = 0 /\ exc' = exc
    /\ nextloop' = 0
    /\ rounds' = 0 /\ stopRound' = -1 /\ polls' = 0
    /\ wbCount' = 0 /\ transCount' = 0
    /\ saved' = 0 /\ shown' = 0 /\ delay0' = 0
    /\ UNCHANGED <<cpc, sigv, status, stop_experiment, starttime, endtime,
                   nshots, cfgv, resolution, idlepos, dayv, prevv, cam_type, awb_mode,
                   color_effects, hwv, now, wbThis, awb_read, runs, finalized,
                   staleGo>>

(* ---- the system ---- *)
Next ==
    \/ GoStore \/ GoSet
    \/ StopStatus \/ StopNext \/ StopFlag
    \/ ReadAcquire \/ ReadRelease
    \/ WaitEvent \/ CheckNext \/ ClearNext \/ ClearEvent
    \/ StartRun \/ InitStatus \/ InitTimes \/ LoopCheck \/ RoundStart
    \/ MotorOn \/ FindStart \/ ImgCheck \/ ImgSet \/ HalfStep
    \/ Classify \/ Expose \/ WhiteBalance \/ Capture \/ LedOff \/ Save
    \/ ThumbAcquire \/ ThumbNew \/ ThumbSave \/ ThumbRelease
    \/ RoundEnd \/ WaitCheck \/ WaitSet
    \/ IdleRotation \/ IdleStep \/ IdleOff \/ IdleInc \/ IdleWrap
    \/ SleepCheck \/ Sleep
    \/ FinStatus \/ FinStop \/ FinRun

Spec == Init /\ [][Next]_vars

\* the worker with a control surface that starts runs, and neither stops a
\* run nor reads the previews
NextRun ==
    \/ GoStore \/ GoSet
    \/ WaitEvent \/ CheckNext \/ ClearNext \/ ClearEvent
    \/ StartRun \/ InitStatus \/ InitTimes \/ LoopCheck \/ RoundStart
    \/ MotorOn \/ FindStart \/ ImgCheck \/ ImgSet \/ HalfStep
    \/ Classify \/ Expose \/ WhiteBalance \/ Capture \/ LedOff \/ Save
    \/ ThumbAcquire \/ ThumbNew \/ ThumbSave \/ ThumbRelease
    \/ RoundEnd \/ WaitCheck \/ WaitSet
    \/ IdleRotation \/ IdleStep \/ IdleOff \/ IdleInc \/ IdleWrap
    \/ SleepCheck \/ Sleep
    \/ FinStatus \/ FinStop \/ FinRun

InitRounds == Constructed(RoundDelays)

SpecRounds == InitRounds /\ [][NextRun]_vars

\* the same with a control surface that also stores the delay
NextConfig == SetDelay \/ NextRun

SpecConfig == Init /\ [][NextConfig]_vars

(* ======================================================================= *)
(* Properties                                                              *)
(* ======================================================================= *)
\* an exception raised by the classification, the raw capture, the image
\* save or the thumbnail encode of takePicture
CaptureErrors == {"classify", "capture", "save", "thumb"}

\* C1: go() is a no-op while an experiment is running: the worker never
\* accepts a start command (line 165 finds next_status = 'run') that was
\* written while an experiment was running; a new run needs a go() issued
\* after the previous run ended.
C1_GoWhileRunningStartsNothing ==
    wpc = "clr_next" => ~staleGo

\* C2: when stop() lands inside a round (after the round started, before its
\* fourth plate is captured), the worker reaches the finalization only after
\* completing exactly that round (all four plates, no further round) and
\* with at most one 1-second poll of the wait phase.
C2_StopMidRoundFinishesRound ==
    (stopRound >= 0 /\ wpc \in FinLabels)
        => (rounds = stopRound + 1 /\ polls <= 1)

\* C3: a failed capture of plate i neither keeps the remaining plates of the
\* round from being attempted nor ends the run: the worker is never in the
\* finalization because of a capture error while plates of the round are
\* left or while the run has neither reached its end time nor been stopped.
C3_FailedCaptureKeepsRunGoing ==
    ~(/\ wpc = "fin_status"
      /\ exc \in CaptureErrors
      /\ (i < 3 \/ (now < endtime /\ ~stop_experiment)))

\* C4: a capture failure never terminates the worker thread.
C4_WorkerSurvivesCaptureFailure ==
    ~(wpc = "dead" /\ exc \in CaptureErrors)

\* the finalization count of the current run, at each position of the worker
C5_FinalizedOnce ==
    /\ (runs > 0 /\ wpc \in IdleLabels \cup {"guard", "dead"})
            => (finalized = 1 /\ ~running /\ exposure_mode = "auto")
    /\ (wpc \in LoopLabels \cup {"init_status", "init_times", "fin_status"})
            => finalized = 0
    /\ (wpc \in {"fin_stop", "fin_run"}) => finalized = 1

\* what the three steps of _end_experiment store
C5_FinalizationSteps ==
    /\ (wpc = "fin_status" /\ wpc' # wpc)
            => (status' = "Stopped" /\ color_effects' = "None")
    /\ (wpc = "fin_stop" /\ wpc' # wpc) => stop_experiment' = FALSE
    /\ (wpc = "fin_run" /\ wpc' # wpc)
            => (running' = FALSE /\ exposure_mode' = "auto")

\* C5: every run that entered runExperiment's try block runs _end_experiment
\* exactly once before the worker is back in run() (or has ended), whatever
\* the exit reason (end time, stop request, error); _end_experiment clears
\* the colour effect, stores status "Stopped", clears stop_experiment and
\* running and restores automatic exposure.
C5_FinalizationAlwaysOnce ==
    [](C5_FinalizedOnce) /\ [][C5_FinalizationSteps]_vars

\* C5 witness: a run that left the loop through an error has been finalized
\* once and the colour effect that was set before the run is cleared
C5_FinalizedAfterError ==
    /\ wpc = "dead" /\ exc = "capture" /\ finalized = 1
    /\ color_effects = "None" /\ ~running

\* a statement of go(): the control surface moves into or out of go()
GoStep ==
    \/ (cpc = "idle" /\ cpc' = "go_set")
    \/ (cpc = "go_set" /\ cpc' = "idle")

\* what a step may do to the schedule of a run
C6_ScheduleStep ==
    /\ GoStep => UNCHANGED <<starttime, endtime, nshots>>
    /\ (running /\ wpc \in LoopLabels)
          => /\ UNCHANGED <<starttime, endtime>>
             /\ \/ nshots' = nshots
                \/ (wpc = "round_end" /\ wpc' = "wait_chk"
                    /\ nshots' = nshots - 1)

\* C6: a go() made while an experiment is running changes neither starttime
\* nor endtime nor nshots, and inside the loop of a run starttime and endtime
\* stay constant and nshots changes only by the worker's decrement of one at
\* the end of a round.
C6_GoKeepsSchedule == [][C6_ScheduleStep]_vars

\* C6 witness: inside the second round of a run, a start command written
\* during that run is pending
C6_GoPendingInRun ==
    /\ running /\ wpc \in RoundLabels /\ rounds = 1
    /\ staleGo /\ next_status = "run" /\ status_change

\* C7: setWB is called in a capture only if the new classification differs
\* from the previous one, is daytime, and awb_mode is not "off"; at most once
\* per capture; and in every run the number of setWB calls is at most the
\* number of classification transitions.
C7_WBOnlyOnEdgeIntoDay ==
    /\ (wpc = "capture" /\ wbThis > 0)
          => /\ wbThis = 1
             /\ prev_daytime # daytime
             /\ daytime = "True"
             /\ awb_read # "off"
    /\ wbCount <= transCount

\* C7 witness: a recalibration has just happened on a night-to-day edge
C7_RecalibratedOnEdge ==
    /\ wpc = "capture" /\ wbThis = 1
    /\ prev_daytime = "False" /\ daytime = "True"

\* this capture is classified daytime and the flag was night or unknown
EdgeIntoDay ==
    wpc = "capture" /\ daytime = "True" /\ prev_daytime \in {"False", "TBD"}

DecodeLabels == {"save", "thumb_acq", "thumb_new", "thumb_save", "thumb_rel"}

\* C11: in a night capture the LED is on from the exposure setting through
\* the raw buffer acquisition (it is still on when the acquisition has
\* completed) and is switched off before the decode starts; no decode, save
\* or thumbnail step of any capture runs with the LED on.
C11_LedOffBeforeDecode ==
    /\ (wpc \in {"wb", "capture", "led_off"} /\ daytime = "False") => led
    /\ wpc \in DecodeLabels => ~led

\* C11 witness: the image of a night capture is being decoded, LED off
C11_NightImageDecoding ==
    wpc = "save" /\ daytime = "False" /\ ~led /\ exposure_mode = "off"

\* C12: plates are handled in the order 0,1,2,3: plate i is positioned and
\* captured only when plates 0..i-1 of the round have a saved file and an
\* encoded preview, and the next round begins only when all four have.
C12_PlatesInOrderAfterSave ==
    /\ wpc \in RoundLabels \cup {"round_end"} => i \in Plates
    /\ wpc \in RoundLabels \ DecodeLabels => (saved = i /\ shown = i)
    /\ wpc \in DecodeLabels \ {"save"}
            => (saved = i + 1 /\ shown \in {i, i + 1})
    /\ wpc = "thumb_rel" => (shown = i + 1 <=> exc = "none")
    /\ wpc = "round_end" => (i = 3 /\ saved = 4 /\ shown = 4)
    /\ (wpc = "round" /\ rounds > 0) => (saved = 4 /\ shown = 4)

\* C12 witness: the second round is about to begin, after four saved files
\* and four encoded previews in the first
C12_SecondRoundAfterFourPlates ==
    wpc = "round" /\ rounds = 1 /\ saved = 4 /\ shown = 4

C14_FieldsResetAfterRun ==
    (runs > 0 /\ finalized = 1 /\ wpc = "wait" /\ cpc = "idle")
        => /\ status = "Stopped" /\ ~running /\ ~stop_experiment
           /\ starttime = 0 /\ endtime = 0 /\ nshots = 0
           /\ daytime = "TBD" /\ idlepos = 0
           /\ \A p \in Plates : last_captured[p] = ""

\* C15: a delay stored during a run does not affect that run: every round
\* of it is scheduled with the delay in effect when the run started.
C15_RunKeepsStartDelay ==
    wpc = "motor_on" => nextloop = NextLoop(now, delay0, endtime)

\* C16: once stop() has stored "Stopping" during a run, the status stays
\* "Stopping" until the finalization stores "Stopped".
C16_StoppingStaysUntilStopped ==
    [][(wpc \in LoopLabels /\ status = "Stopping")
          => status' \in {"Stopping", "Stopped"}]_vars

\* C17: with the control surface at rest and the worker at the wait of
\* run(), the start event is set exactly when a start command is pending:
\* the worker blocks when nothing is pending (it would otherwise pass the
\* wait and loop), and a pending go() is not lost behind a clear event.
C17_IdleWorkerBlocks ==
    (wpc = "wait" /\ cpc = "idle")
        => (status_change <=> next_status = "run")

C21_StopLeavesNoResidue ==
    (wpc \in IdleLabels /\ cpc = "idle")
        => (~stop_experiment /\ status = "Stopped")

\* C22: whenever the worker is not inside runExperiment (it waits in run(),
\* or its thread has ended with the exception of a run) the LED is off and
\* the motor is disengaged.
C22_IdleHardwareOff ==
    wpc \in IdleLabels \cup {"dead"} => (~led /\ ~motor)

\* C23: findStart and every halfStep (between plates and in the idle
\* rotation) are issued with the motor engaged, and the motor is disengaged
\* from the end of the idle rotation through the whole wait phase.
C23_MotorEngagedOnlyToMove ==
    /\ wpc \in {"find_start", "half_step", "idle_step"} => motor
    /\ wpc \in {"idle_inc", "idle_wrap", "sleep_chk", "sleep"} => ~motor

\* C23 witness: the worker sleeps after the second round of a run, whose
\* idle rotation has engaged and released the motor
C23_WaitingAfterIdleRotation ==
    wpc = "sleep" /\ rounds = 2 /\ idlepos = 2 /\ ~motor

====
